---- MODULE Spec2Model ----
(***************************************************************************)
(* A model of zpool_influxdb.c: the sampler (main, the zpool_iter          *)
(* callback print_stats and its stages), the tree walker, the record       *)
(* emitters and the histogram bucket reducer.                              *)
(*                                                                         *)
(* Strings are sequences of tokens: a token is one reserved character      *)
(* (space, comma, equals, backslash) or a run of unreserved characters.    *)
(* uint64_t counters are kept modulo 2^WordBits: the width is scaled down  *)
(* so that wrap-around is reachable within TLC's integers.                 *)
(***************************************************************************)
EXTENDS Integers, Sequences, FiniteSets, TLC

VARIABLES
    pc,                     \* position of the process (main / zpool_iter / print_stats)
    execd_mode,             \* global option, line 90
    no_histograms,          \* global option, line 91
    sum_histogram_buckets,  \* global option, line 92
    timestamp,              \* global, line 93
    data,                   \* argv[optind]: the pool name filter, <<>> when NULL
    pools,                  \* the pools libzfs enumerates, in order
    idx,                    \* index of the pool zpool_iter is at
    lines,                  \* lines read from stdin so far (execd mode)
    ret,                    \* main's ret
    err,                    \* print_stats' err
    pool_name,              \* print_stats' escaped pool name
    out,                    \* everything written to stdout, one entry per line started
    clock,                  \* the wall clock, in nanoseconds
    pass_start,             \* Len(out) when the current print_stats call began
    harderr,                \* some record function returned nonzero in the current call
    anyfail,                \* some print_stats call so far met a hard error
    exit_code,              \* the process exit status once pc = "exit"
    realtime_ok,            \* whether clock_gettime(CLOCK_REALTIME) works here
    hin,                    \* input of the bucket reducer (reducer specification)
    hout                    \* outcome of the bucket reducer (reducer specification)

vars == <<pc, execd_mode, no_histograms, sum_histogram_buckets, timestamp, data,
          pools, idx, lines, ret, err, pool_name, out, clock, pass_start,
          harderr, anyfail, exit_code, realtime_ok, hin, hout>>

----------------------------------------------------------------------------
(* Program constants *)

MIN_LAT_INDEX == 10
MIN_SIZE_INDEX == 9
DSS_NUM_STATES == 4
POOL_SCAN_FUNCS == 3
DSS_SCANNING == 1
NSEC_PER_SEC == 1000000000
INITIAL_RET == 8
EXIT_FAILURE == 1

(* Bounds of the model *)

WordBits == 4       \* modelled width of uint64_t
MaxLines == 2       \* lines read from stdin before it is closed (execd mode)
MaxExtra == 3       \* histogram arrays are at most MIN_*_INDEX + MaxExtra long
StartNsec == 3      \* the clock starts StartNsec ns before a full second

RECURSIVE Pow2(_)
Pow2(n) == IF n = 0 THEN 1 ELSE 2 * Pow2(n - 1)

U64 == Pow2(WordBits)               \* 2^64, scaled
UINT64_MAX == U64 - 1
INT64_MAX == Pow2(WordBits - 1) - 1

\* line 86: the default build (SUPPORT_UINT64 not defined)
MASK_UINT64(x) == x % (INT64_MAX + 1)

\* uint64_t addition
AddU64(a, b) == (a + b) % U64

----------------------------------------------------------------------------
(* Strings and the escaper *)

Reserved == {" ", ",", "=", "\\"}

\* a switch that has lost the '=' case
EscapeCharNoEquals(ch) ==
    IF ch \in Reserved \ {"="} THEN <<"\\", ch>> ELSE <<ch>>
\* the switch of lines 129-137: what one input character puts in the buffer
EscapeChar(ch) == IF ch \in Reserved THEN <<"\\", ch>> ELSE <<ch>>

\* the loop of lines 128-138, for a result that fits the buffer
RECURSIVE escape_string(_)
escape_string(s) ==
    IF s = <<>> THEN <<>>
    ELSE EscapeChar(Head(s)) \o escape_string(Tail(s))

\* "%lu" of a number: one token of digits
Dec(n) == ToString(n)

----------------------------------------------------------------------------
(* Results of a record function: its return value, what it wrote, whether  *)
(* the process died in it (undefined behaviour), and whether any record    *)
(* function called in it returned nonzero.                                 *)

Res(e, o) == [err |-> e, out |-> o, crashed |-> FALSE, hard |-> e # 0]

\* One line of output. nl is FALSE when the line was started and the
\* function returned before writing the timestamp and the newline.
Line(m, tags, fields, ts) ==
    [m |-> m, tags |-> tags, fields |-> fields, ts |-> ts, nl |-> TRUE]
Partial(m, tags, fields) ==
    [m |-> m, tags |-> tags, fields |-> fields, ts |-> 0, nl |-> FALSE]

Has(nv, key) == key \in nv.keys

----------------------------------------------------------------------------
(* print_top_level_summary_stats, lines 254-283 *)

\* zpool_state_to_name(vs_state, vs_aux) of libzfs: the name of a vdev state
zpool_state_to_name(state, aux) ==
    CASE state = 7 -> "ONLINE"
      [] state = 6 -> "DEGRADED"
      [] state = 5 -> "FAULTED"
      [] state = 4 -> (IF aux = 0 THEN "FAULTED" ELSE "UNAVAIL")
      [] state = 3 -> "REMOVED"
      [] OTHER -> "OFFLINE"

print_top_level_summary_stats(nvroot, pname, ts) ==
    IF ~Has(nvroot, "vdev_stats") THEN Res(1, <<>>)
    ELSE LET vs == nvroot.vs IN
         Res(0, << Line("zpool_stats",
             << <<"name", pname>>,
                <<"state", <<zpool_state_to_name(vs.vs_state, vs.vs_aux)>> >> >>,
             << <<"alloc", MASK_UINT64(vs.vs_alloc)>>,
                <<"free", MASK_UINT64((vs.vs_space - vs.vs_alloc) % U64)>>,
                <<"size", MASK_UINT64(vs.vs_space)>>,
                <<"read_bytes", MASK_UINT64(vs.vs_bytes_read)>>,
                <<"read_errors", MASK_UINT64(vs.vs_read_errors)>>,
                <<"read_ops", MASK_UINT64(vs.vs_ops_read)>>,
                <<"write_bytes", MASK_UINT64(vs.vs_bytes_write)>>,
                <<"write_errors", MASK_UINT64(vs.vs_write_errors)>>,
                <<"write_ops", MASK_UINT64(vs.vs_ops_write)>>,
                <<"checksum_errors", MASK_UINT64(vs.vs_checksum_errors)>>,
                <<"fragmentation", MASK_UINT64(vs.vs_fragmentation)>> >>,
             ts) >>)

----------------------------------------------------------------------------
(* print_scan_status, lines 149-249 *)

ScanStateName == <<"none", "scanning", "finished", "canceled">>

ScanFuncName(f) ==
    CASE f = 0 -> "none_requested"
      [] f = 1 -> "scrub"
      [] f = 2 -> "resilver"
      [] OTHER -> "scan"

\* (int64_t) x of a uint64_t x
ToInt64(x) == IF x > INT64_MAX THEN x - U64 ELSE x

\* "%.2f" of 100.0 * examined / to_examine, in hundredths
PctDone(examined, to_examine) ==
    IF to_examine > 0
    THEN (20000 * examined + to_examine) \div (2 * to_examine)
    ELSE 0

\* lines 206-223: <<pass_exam, rate, remaining_time>>; paused_time is 0
\* (EZFS_SCRUB_PAUSED is not a preprocessor macro)
ScanPass(ps, examined, now) ==
    LET base == IF ps.pss_state = DSS_SCANNING THEN ToInt64(now % U64)
                ELSE ToInt64(ps.pss_end_time)
        diff == base - ToInt64(ps.pss_pass_start) - ToInt64(0)
        elapsed == IF diff > 0 THEN diff ELSE 1
        pass_exam == IF ps.pss_pass_exam # 0 THEN ps.pss_pass_exam ELSE 1
        rate0 == pass_exam \div elapsed
        rate == IF rate0 > 0 THEN rate0 ELSE 1
        remaining == IF ps.pss_state = DSS_SCANNING
                     THEN (ps.pss_to_examine - (examined \div rate)) % U64
                     ELSE 0
    IN  <<pass_exam, rate, remaining>>

print_scan_status(nvroot, pname, now, ts) ==
    IF \/ ~Has(nvroot, "scan_stats")
       \/ nvroot.ps.pss_state >= DSS_NUM_STATES
       \/ nvroot.ps.pss_func >= POOL_SCAN_FUNCS
    THEN Res(1, <<>>)
    ELSE LET ps == nvroot.ps
             examined == IF ps.pss_examined # 0 THEN ps.pss_examined ELSE 1
             pass == ScanPass(ps, examined, now)
         IN  Res(0, << Line("zpool_scan_stats",
             << <<"function", <<ScanFuncName(ps.pss_func)>> >>,
                <<"name", pname>>,
                <<"state", <<ScanStateName[ps.pss_state + 1]>> >> >>,
             << <<"end_ts", MASK_UINT64(ps.pss_end_time)>>,
                <<"errors", MASK_UINT64(ps.pss_errors)>>,
                <<"examined", MASK_UINT64(examined)>>,
                <<"pass_examined", MASK_UINT64(pass[1])>>,
                <<"pause_ts", MASK_UINT64(0)>>,
                <<"paused_t", MASK_UINT64(0)>>,
                <<"pct_done", PctDone(examined, ps.pss_to_examine)>>,
                <<"processed", MASK_UINT64(ps.pss_processed)>>,
                <<"rate", MASK_UINT64(pass[2])>>,
                <<"remaining_t", MASK_UINT64(pass[3])>>,
                <<"start_ts", MASK_UINT64(ps.pss_start_time)>>,
                <<"to_examine", MASK_UINT64(ps.pss_to_examine)>>,
                <<"to_process", MASK_UINT64(ps.pss_to_process)>> >>,
             ts) >>)

----------------------------------------------------------------------------
(* get_vdev_name, lines 288-311, and get_vdev_desc, lines 323-365.         *)
(* parent_name is <<>> for NULL.                                           *)

VdevType(nv) == IF Has(nv, "type") THEN nv.type ELSE <<"unknown">>
VdevId(nv) == IF Has(nv, "id") THEN nv.id ELSE UINT64_MAX

\* a name that leaves the parent's name out
get_vdev_name_flat(nvroot, parent_name) ==
    IF parent_name = <<>> THEN VdevType(nvroot)
    ELSE VdevType(nvroot) \o <<"-">> \o <<Dec(VdevId(nvroot))>>
get_vdev_name(nvroot, parent_name) ==
    IF parent_name = <<>> THEN VdevType(nvroot)
    ELSE parent_name \o <<"/">> \o VdevType(nvroot) \o <<"-">>
         \o <<Dec(VdevId(nvroot))>>

\* the tag list the description string spells: [path=...,]vdev=...
get_vdev_desc(nvroot, parent_name) ==
    LET vdev_value ==
            IF parent_name = <<>> THEN escape_string(VdevType(nvroot))
            ELSE escape_string(parent_name) \o <<"/">>
                 \o escape_string(VdevType(nvroot)) \o <<"-">>
                 \o <<Dec(VdevId(nvroot))>>
    IN  IF Has(nvroot, "path")
        THEN << <<"path", escape_string(nvroot.path)>>, <<"vdev", vdev_value>> >>
        ELSE << <<"vdev", vdev_value>> >>

----------------------------------------------------------------------------
(* The histogram emitters: print_vdev_latency_stats, lines 377-456, and    *)
(* print_vdev_size_stats, lines 468-550                                    *)

\* lat_type[], lines 391-405: <<name, short_name>>
\* (ZPOOL_CONFIG_VDEV_TRIM_LAT_HISTO not defined)
lat_type ==
    << <<"vdev_tot_r_lat_histo", "total_read">>,
       <<"vdev_tot_w_lat_histo", "total_write">>,
       <<"vdev_disk_r_lat_histo", "disk_read">>,
       <<"vdev_disk_w_lat_histo", "disk_write">>,
       <<"vdev_sync_r_lat_histo", "sync_read">>,
       <<"vdev_sync_w_lat_histo", "sync_write">>,
       <<"vdev_async_r_lat_histo", "async_read">>,
       <<"vdev_async_w_lat_histo", "async_write">>,
       <<"vdev_scrub_histo", "scrub">> >>

\* size_type[], lines 482-498 (ZPOOL_CONFIG_VDEV_IND_TRIM_HISTO not defined)
size_type ==
    << <<"vdev_sync_ind_r_histo", "sync_read_ind">>,
       <<"vdev_sync_ind_w_histo", "sync_write_ind">>,
       <<"vdev_async_ind_r_histo", "async_read_ind">>,
       <<"vdev_async_ind_w_histo", "async_write_ind">>,
       <<"vdev_ind_scrub_histo", "scrub_read_ind">>,
       <<"vdev_sync_agg_r_histo", "sync_read_agg">>,
       <<"vdev_sync_agg_w_histo", "sync_write_agg">>,
       <<"vdev_async_agg_r_histo", "async_read_agg">>,
       <<"vdev_async_agg_w_histo", "async_write_agg">>,
       <<"vdev_agg_scrub_histo", "scrub_read_agg">> >>

\* The le tag of a row that is not the last one.
\* "%0.6f" of (float) (1ULL << bucket) * 1e-9: seconds with six decimals,
\* kept as the number of microseconds printed (rounded to nearest)
LatencyLabel(bucket) == <<"%0.6f", (Pow2(bucket) + 500) \div 1000>>
\* a label one shift too far
SizeLabelShifted(bucket) == <<"%llu", Pow2(bucket + 1)>>
\* "%llu" of 1ULL << bucket
SizeLabel(bucket) == <<"%llu", Pow2(bucket)>>

\* array[bucket]; a read past the end of the array is undefined and yields g
ReadBucket(array, bucket, g) ==
    IF bucket < Len(array) THEN array[bucket + 1] ELSE g

\* the fold-in left out of the floor row: bucket < floor for bucket <= floor
RowValueStrictFloor(sum, raw, bucket, floor, sum_buckets) ==
    IF bucket < floor \/ sum_buckets # 0 THEN AddU64(sum, raw) ELSE raw
\* the sum_histogram_buckets flag left out
RowValueIgnoresSum(sum, raw, bucket, floor, sum_buckets) ==
    IF bucket <= floor THEN AddU64(sum, raw) ELSE raw
\* the value of one series at one printed row, lines 443-447 and 537-541
RowValue(sum, raw, bucket, floor, sum_buckets) ==
    IF bucket <= floor \/ sum_buckets # 0 THEN AddU64(sum, raw) ELSE raw

\* The bucket loop, lines 426-454 and 519-548, from `bucket` with the running
\* sums `sums`, up to bucket `stop`; `end` is the loop's end (c - 1).
\* h: [m, floor, table, lat, pname, desc, sum, ts, g]
RECURSIVE HistoRows(_, _, _, _, _, _)
HistoRows(h, arrays, sums, bucket, end, stop) ==
    IF bucket > stop THEN <<>>
    ELSE IF bucket < h.floor
    THEN HistoRows(h, arrays,
             [i \in DOMAIN sums |->
                 AddU64(sums[i], ReadBucket(arrays[i], bucket, h.g))],
             bucket + 1, end, stop)
    ELSE LET ns == [i \in DOMAIN sums |->
                       RowValue(sums[i], ReadBucket(arrays[i], bucket, h.g),
                                bucket, h.floor, h.sum)]
             le == IF bucket < end
                   THEN (IF h.lat THEN LatencyLabel(bucket) ELSE SizeLabel(bucket))
                   ELSE <<"+Inf">>
             row == Line(h.m,
                         << <<"le", le>>, <<"name", h.pname>> >> \o h.desc,
                         [i \in DOMAIN ns |-> <<h.table[i][2], ns[i]>>],
                         h.ts)
         IN  <<row>> \o HistoRows(h, arrays, ns, bucket + 1, end, stop)

Crash(o) == [err |-> 0, out |-> o, crashed |-> TRUE, hard |-> FALSE]

\* what an out-of-bounds read may yield
Garbage == {0, UINT64_MAX}

MinLen(arrays) ==
    CHOOSE n \in {Len(arrays[i]) : i \in DOMAIN arrays} :
        \A i \in DOMAIN arrays : n <= Len(arrays[i])

\* The possible outcomes of a histogram emitter. The lookups are made first
\* (any missing array: return 3 with nothing written); c is the length of
\* the last array found and end = c - 1 in unsigned arithmetic.
\* With c = 0, end is UINT_MAX and the loop reads past every array until the
\* process faults; with an array shorter than c the loop reads past its end.
HistoOutcomes(h0, nvroot, pname, parent_name, sum, ts) ==
    IF ~Has(nvroot, "vdev_stats_ex") THEN {Res(6, <<>>)}
    ELSE IF \E i \in DOMAIN h0.table : h0.table[i][1] \notin DOMAIN nvroot.ex
    THEN {Res(3, <<>>)}
    ELSE LET n == Len(h0.table)
             arrays == [i \in 1..n |-> nvroot.ex[h0.table[i][1]]]
             zero == [i \in 1..n |-> 0]
             c == Len(arrays[n])
             shortest == MinLen(arrays)
             h(g) == [m |-> h0.m, floor |-> h0.floor, table |-> h0.table,
                      lat |-> h0.lat, pname |-> pname,
                      desc |-> get_vdev_desc(nvroot, parent_name),
                      sum |-> sum, ts |-> ts, g |-> g]
         IN  IF c >= 1 /\ shortest >= c
             THEN {Res(0, HistoRows(h(0), arrays, zero, 0, c - 1, c - 1))}
             ELSE IF c = 0
             THEN {Crash(HistoRows(h(g), arrays, zero, 0, h0.floor + 1, stop)) :
                       g \in Garbage, stop \in {h0.floor - 1, h0.floor}}
             ELSE {Crash(HistoRows(h(0), arrays, zero, 0, c - 1, shortest - 1))}
                  \cup {Res(0, HistoRows(h(g), arrays, zero, 0, c - 1, c - 1)) :
                            g \in Garbage}

LatencyKind ==
    [m |-> "zpool_latency", floor |-> MIN_LAT_INDEX, table |-> lat_type,
     lat |-> TRUE]
SizeKind ==
    [m |-> "zpool_io_size", floor |-> MIN_SIZE_INDEX, table |-> size_type,
     lat |-> FALSE]

print_vdev_latency_stats(nvroot, pname, parent_name, sum, ts) ==
    HistoOutcomes(LatencyKind, nvroot, pname, parent_name, sum, ts)

print_vdev_size_stats(nvroot, pname, parent_name, sum, ts) ==
    HistoOutcomes(SizeKind, nvroot, pname, parent_name, sum, ts)

----------------------------------------------------------------------------
(* print_queue_stats, lines 558-605, and print_top_level_vdev_stats,       *)
(* lines 610-654                                                           *)

\* queue_type[]: <<name, short_name (per vdev), short_name (top level)>>
queue_type ==
    << <<"vdev_sync_r_active_queue", "sync_r_active", "sync_r_active_queue">>,
       <<"vdev_sync_w_active_queue", "sync_w_active", "sync_w_active_queue">>,
       <<"vdev_async_r_active_queue", "async_r_active", "async_r_active_queue">>,
       <<"vdev_async_w_active_queue", "async_w_active", "async_w_active_queue">>,
       <<"vdev_async_scrub_active_queue", "async_scrub_active",
         "async_scrub_active_queue">>,
       <<"vdev_sync_r_pend_queue", "sync_r_pend", "sync_r_pend_queue">>,
       <<"vdev_sync_w_pend_queue", "sync_w_pend", "sync_w_pend_queue">>,
       <<"vdev_async_r_pend_queue", "async_r_pend", "async_r_pend_queue">>,
       <<"vdev_async_w_pend_queue", "async_w_pend", "async_w_pend_queue">>,
       <<"vdev_async_scrub_pend_queue", "async_scrub_pend",
         "async_scrub_pend_queue">> >>

\* the number of gauges found before the first failed lookup
GaugesFound(nv_ex) ==
    IF \A i \in DOMAIN queue_type : queue_type[i][1] \in DOMAIN nv_ex
    THEN Len(queue_type)
    ELSE (CHOOSE i \in DOMAIN queue_type :
              /\ queue_type[i][1] \notin DOMAIN nv_ex
              /\ \A j \in 1..(i - 1) : queue_type[j][1] \in DOMAIN nv_ex) - 1

print_queue_stats(nvroot, pname, parent_name, ts) ==
    IF ~Has(nvroot, "vdev_stats_ex") THEN Res(6, <<>>)
    ELSE LET k == GaugesFound(nvroot.ex)
             tags == << <<"name", pname>> >> \o get_vdev_desc(nvroot, parent_name)
             fields == [i \in 1..k |->
                           <<queue_type[i][2], nvroot.ex[queue_type[i][1]]>>]
         IN  IF k < Len(queue_type)
             THEN Res(3, <<Partial("zpool_vdev_queue", tags, fields)>>)
             ELSE Res(0, <<Line("zpool_vdev_queue", tags, fields, ts)>>)

print_top_level_vdev_stats(nvroot, pname, ts) ==
    IF ~Has(nvroot, "vdev_stats_ex") THEN Res(6, <<>>)
    ELSE LET k == GaugesFound(nvroot.ex)
             tags == << <<"name", pname>>, <<"vdev", <<"root">> >> >>
             fields == [i \in 1..k |->
                           <<queue_type[i][3],
                             MASK_UINT64(nvroot.ex[queue_type[i][1]])>>]
         IN  IF k < Len(queue_type)
             THEN Res(3, <<Partial("zpool_vdev_stats", tags, fields)>>)
             ELSE Res(0, <<Line("zpool_vdev_stats", tags, fields, ts)>>)

----------------------------------------------------------------------------
(* print_recursive_stats, lines 661-686.  func names the record function.  *)

CallFunc(func, nvroot, pname, parent_name, sum, ts) ==
    CASE func = "latency" ->
             print_vdev_latency_stats(nvroot, pname, parent_name, sum, ts)
      [] func = "size" ->
             print_vdev_size_stats(nvroot, pname, parent_name, sum, ts)
      [] func = "queue" ->
             {print_queue_stats(nvroot, pname, parent_name, ts)}

RECURSIVE print_recursive_stats(_, _, _, _, _, _, _)
RECURSIVE WalkChildren(_, _, _, _, _, _, _, _)

\* the loop of lines 680-683 from child c on: the value each call returns is
\* dropped.  calls lists the invocations of func made, in order, each with
\* the node and the parent name it was given.
WalkChildren(func, child, c, pname, vdev_name, descend, sum, ts) ==
    IF c > Len(child)
    THEN {[out |-> <<>>, crashed |-> FALSE, hard |-> FALSE, calls |-> <<>>]}
    ELSE UNION {
           IF r.crashed
           THEN {[out |-> r.out, crashed |-> TRUE, hard |-> r.hard,
                  calls |-> r.calls]}
           ELSE {[out |-> r.out \o t.out, crashed |-> t.crashed,
                  hard |-> r.hard \/ t.hard, calls |-> r.calls \o t.calls] :
                    t \in WalkChildren(func, child, c + 1, pname, vdev_name,
                                       descend, sum, ts)} :
           r \in print_recursive_stats(func, child[c], pname, vdev_name,
                                       descend, sum, ts)}

print_recursive_stats(func, nvroot, pname, parent_name, descend, sum, ts) ==
    LET call == <<[nvroot |-> nvroot, parent_name |-> parent_name]>>
        own(r) == [err |-> r.err, out |-> r.out, crashed |-> r.crashed,
                   hard |-> r.hard, calls |-> call]
    IN
    UNION {
      IF r.crashed \/ r.err # 0 THEN {own(r)}
      ELSE IF descend # 0 /\ Has(nvroot, "children")
      THEN {[err |-> 0, out |-> r.out \o t.out, crashed |-> t.crashed,
             hard |-> t.hard, calls |-> call \o t.calls] :
               t \in WalkChildren(func, nvroot.children, 1, pname,
                                  get_vdev_name(nvroot, parent_name),
                                  descend, sum, ts)}
      ELSE {own(r)} :
      r \in CallFunc(func, nvroot, pname, parent_name, sum, ts)}

----------------------------------------------------------------------------
(* The pool configurations the sampler is run on: what libzfs hands to     *)
(* print_stats.  A configuration is healthy or departs from a healthy one  *)
(* in one place.                                                           *)

SampleRows == 2     \* rows each sample histogram yields (its length - floor)

LatNameSet == {lat_type[i][1] : i \in DOMAIN lat_type}
SizeNameSet == {size_type[i][1] : i \in DOMAIN size_type}
QueueNameSet == {queue_type[i][1] : i \in DOMAIN queue_type}

SampleArray(len) == [b \in 1..len |-> b % 3]

\* extended stats with the entries named in `missing` absent
SampleEx(missing) ==
    [n \in (LatNameSet \cup SizeNameSet \cup QueueNameSet) \ missing |->
        IF n \in LatNameSet THEN SampleArray(MIN_LAT_INDEX + SampleRows)
        ELSE IF n \in SizeNameSet THEN SampleArray(MIN_SIZE_INDEX + SampleRows)
        ELSE 1]

FaultKinds == {"no_ex", "no_lat", "no_size", "no_queue_first", "no_queue_mid"}
NoFault == [at |-> <<0>>, kind |-> "none"]

MissingOf(kind) ==
    CASE kind = "no_lat" -> {lat_type[3][1]}
      [] kind = "no_size" -> {size_type[1][1]}
      [] kind = "no_queue_first" -> {queue_type[1][1]}
      [] kind = "no_queue_mid" -> {queue_type[4][1]}
      [] OTHER -> {}

\* the node at position `at` of the tree, `kids` its children
Vdev(at, type, id, path, kids, fault) ==
    LET hit == fault.at = at IN
    [keys |-> {"type"}
              \cup (IF id >= 0 THEN {"id"} ELSE {})
              \cup (IF path # <<>> THEN {"path"} ELSE {})
              \cup (IF kids # <<>> THEN {"children"} ELSE {})
              \cup (IF hit /\ fault.kind = "no_ex" THEN {} ELSE {"vdev_stats_ex"}),
     type |-> type, id |-> id, path |-> path, children |-> kids,
     ex |-> SampleEx(IF hit THEN MissingOf(fault.kind) ELSE {})]

SampleVs ==
    [vs_state |-> 7, vs_aux |-> 0, vs_alloc |-> 3, vs_space |-> 5,
     vs_bytes_read |-> 2, vs_read_errors |-> 0, vs_ops_read |-> 1,
     vs_bytes_write |-> UINT64_MAX, vs_write_errors |-> 0, vs_ops_write |-> 4,
     vs_checksum_errors |-> 0, vs_fragmentation |-> 1]

ScanVariants == {"scanning", "finished", "absent", "bad_state", "bad_func"}

SamplePs(scan) ==
    [pss_func |-> IF scan = "bad_func" THEN POOL_SCAN_FUNCS ELSE 1,
     pss_state |-> CASE scan = "bad_state" -> DSS_NUM_STATES
                     [] scan = "finished" -> 2
                     [] OTHER -> DSS_SCANNING,
     pss_start_time |-> 0, pss_end_time |-> IF scan = "finished" THEN 1 ELSE 0,
     pss_to_examine |-> 6, pss_examined |-> 3, pss_to_process |-> 6,
     pss_processed |-> 2, pss_errors |-> 0, pss_pass_exam |-> 3,
     pss_pass_start |-> 0]

Shapes == {"single", "stripe", "mirror"}

ChildrenOf(shape, fault) ==
    CASE shape = "single" -> <<>>
      [] shape = "stripe" ->
            << Vdev(<<1>>, <<"disk">>, 0, <<"/dev/sda">>, <<>>, fault),
               Vdev(<<2>>, <<"disk">>, 1, <<"/dev/my", " ", "disk">>, <<>>, fault) >>
      [] shape = "mirror" ->
            << Vdev(<<1>>, <<"mirror">>, 0, <<>>,
                    << Vdev(<<1, 1>>, <<"disk">>, 0, <<"/dev/sda">>, <<>>, fault),
                       Vdev(<<1, 2>>, <<"disk">>, 1, <<"/dev/sdb">>, <<>>, fault) >>,
                    fault),
               Vdev(<<2>>, <<"disk">>, -1, <<"/dev/sdc">>, <<>>, fault) >>

\* the vdev tree of a pool: the root carries the vdev stats and scan stats
VdevTree(shape, scan, fault, has_vs) ==
    LET root == Vdev(<<>>, <<"root">>, -1, <<>>, ChildrenOf(shape, fault), fault)
    IN  [keys |-> root.keys
                  \cup (IF has_vs THEN {"vdev_stats"} ELSE {})
                  \cup (IF scan = "absent" THEN {} ELSE {"scan_stats"}),
         type |-> root.type, id |-> root.id, path |-> root.path,
         children |-> root.children, ex |-> root.ex,
         vs |-> SampleVs, ps |-> SamplePs(scan)]

Pool(name, has_tree, nvroot) ==
    [zpool_name |-> name, has_tree |-> has_tree, nvroot |-> nvroot]

PoolConfigs(name) ==
    {Pool(name, TRUE, VdevTree(shape, "scanning", f, TRUE)) :
        shape \in Shapes,
        f \in {NoFault} \cup {[at |-> at, kind |-> k] : at \in {<<>>, <<1>>, <<1, 1>>, <<1, 2>>, <<2>>}, k \in FaultKinds}}
    \cup {Pool(name, TRUE, VdevTree(shape, scan, NoFault, TRUE)) :
        shape \in Shapes, scan \in ScanVariants}
    \cup {Pool(name, FALSE, VdevTree("single", "scanning", NoFault, TRUE)),
          Pool(name, TRUE, VdevTree("single", "scanning", NoFault, FALSE))}

OtherConfigs(name) ==
    {Pool(name, TRUE, VdevTree("single", "finished", NoFault, TRUE)),
     Pool(name, TRUE, VdevTree("stripe", "scanning",
                               [at |-> <<2>>, kind |-> "no_size"], TRUE))}

PoolA == <<"tank">>
PoolB == <<"my", " ", "pool">>

FirstConfigs(name) ==
    {Pool(name, TRUE, VdevTree("single", "scanning", NoFault, TRUE)),
     Pool(name, TRUE, VdevTree("stripe", "absent", NoFault, TRUE)),
     Pool(name, TRUE, VdevTree("mirror", "scanning",
                               [at |-> <<1, 2>>, kind |-> "no_lat"], TRUE))}

PoolLists ==
    {<<a>> : a \in PoolConfigs(PoolA)}
    \cup {<<a, b>> : a \in FirstConfigs(PoolA), b \in OtherConfigs(PoolB)}
    \cup {<<b, a>> : a \in FirstConfigs(PoolA), b \in OtherConfigs(PoolB)}

----------------------------------------------------------------------------
(* The sampler: main, lines 767-812, zpool_iter, print_stats, lines        *)
(* 694-757.  Every step takes one nanosecond of wall-clock time.           *)

Init ==
    /\ pc = "init"
    /\ execd_mode \in {0, 1}
    /\ no_histograms \in {0, 1}
    /\ sum_histogram_buckets \in {0, 1}
    /\ data \in {<<>>, PoolA}
    /\ pools \in PoolLists
    /\ timestamp = 0
    /\ idx = 0
    /\ lines = 0
    /\ ret = INITIAL_RET
    /\ err = 0
    /\ pool_name = <<>>
    /\ out = <<>>
    /\ clock = NSEC_PER_SEC - StartNsec
    /\ pass_start = 0
    /\ harderr = FALSE
    /\ anyfail = FALSE
    /\ exit_code = 0
    /\ realtime_ok \in BOOLEAN
    /\ hin = <<>>
    /\ hout = <<>>

Tick == clock' = clock + 1

\* time(NULL)
TimeNow == clock \div NSEC_PER_SEC

\* lines 796-802: libzfs_init
LibzfsInit ==
    /\ pc = "init"
    /\ \E ok \in BOOLEAN :
         IF ok THEN pc' = "main" /\ exit_code' = exit_code
         ELSE pc' = "fatal" /\ exit_code' = EXIT_FAILURE
    /\ Tick
    /\ UNCHANGED <<execd_mode, no_histograms, sum_histogram_buckets, timestamp,
                   data, pools, idx, lines, ret, err, pool_name, out,
                   pass_start, harderr, anyfail, realtime_ok, hin, hout>>

\* lines 803-804: one-shot mode calls zpool_iter once
OneShot ==
    /\ pc = "main"
    /\ execd_mode = 0
    /\ pc' = "iter"
    /\ idx' = 1
    /\ Tick
    /\ UNCHANGED <<execd_mode, no_histograms, sum_histogram_buckets, timestamp,
                   data, pools, lines, ret, err, pool_name, out, pass_start,
                   harderr, anyfail, exit_code, realtime_ok, hin, hout>>

\* lines 807-808: getline returned a line
ReadLine ==
    /\ pc = "main"
    /\ execd_mode # 0
    /\ lines < MaxLines
    /\ lines' = lines + 1
    /\ pc' = "iter"
    /\ idx' = 1
    /\ Tick
    /\ UNCHANGED <<execd_mode, no_histograms, sum_histogram_buckets, timestamp,
                   data, pools, ret, err, pool_name, out, pass_start,
                   harderr, anyfail, exit_code, realtime_ok, hin, hout>>

\* lines 807 and 811: getline returned -1, main returns ret
EndOfInput ==
    /\ pc = "main"
    /\ execd_mode # 0
    /\ pc' = "exit"
    /\ exit_code' = ret
    /\ Tick
    /\ UNCHANGED <<execd_mode, no_histograms, sum_histogram_buckets, timestamp,
                   data, pools, idx, lines, ret, err, pool_name, out,
                   pass_start, harderr, anyfail, realtime_ok, hin, hout>>

\* zpool_iter returns r to main: lines 804-805, or 808-809
IterReturns(r) ==
    /\ ret' = r
    /\ IF execd_mode = 0
       THEN pc' = "exit" /\ exit_code' = r
       ELSE pc' = "main" /\ exit_code' = exit_code

\* print_stats returns e to zpool_iter, which goes on to the next pool on 0
\* and returns e to its caller otherwise
StatsReturns(e) ==
    IF e = 0
    THEN pc' = "iter" /\ idx' = idx + 1 /\ UNCHANGED <<ret, exit_code>>
    ELSE IterReturns(e) /\ idx' = idx

\* zpool_iter has called the callback on every pool
IterEnd ==
    /\ pc = "iter"
    /\ idx > Len(pools)
    /\ IterReturns(0)
    /\ Tick
    /\ UNCHANGED <<execd_mode, no_histograms, sum_histogram_buckets, timestamp,
                   data, pools, idx, lines, err, pool_name, out, pass_start,
                   harderr, anyfail, realtime_ok, hin, hout>>

\* lines 717-721: the timestamp of a pool's records
ReadClock ==
    IF realtime_ok
    THEN (clock \div NSEC_PER_SEC) * NSEC_PER_SEC + (clock % NSEC_PER_SEC)
    ELSE TimeNow * NSEC_PER_SEC

\* print_stats, lines 704-733: the pool filter, the refresh, the timestamp
\* and the lookups of the vdev tree and the vdev stats
PoolEnter ==
    /\ pc = "iter"
    /\ idx <= Len(pools)
    /\ LET zhp == pools[idx] IN
       IF data # <<>> /\ data # zhp.zpool_name
       THEN /\ StatsReturns(0)
            /\ UNCHANGED <<timestamp, err, pool_name, pass_start, harderr,
                           anyfail>>
       ELSE \E refresh_ok \in BOOLEAN :
            IF ~refresh_ok
            THEN /\ StatsReturns(1)
                 /\ anyfail' = TRUE
                 /\ UNCHANGED <<timestamp, err, pool_name, pass_start, harderr>>
            ELSE /\ timestamp' = ReadClock
                 /\ pass_start' = Len(out)
                 /\ harderr' = FALSE
                 /\ IF ~zhp.has_tree
                    THEN /\ StatsReturns(2)
                         /\ anyfail' = TRUE
                         /\ UNCHANGED <<err, pool_name>>
                    ELSE IF ~Has(zhp.nvroot, "vdev_stats")
                    THEN /\ StatsReturns(3)
                         /\ anyfail' = TRUE
                         /\ UNCHANGED <<err, pool_name>>
                    ELSE /\ pc' = "summary"
                         /\ pool_name' = escape_string(zhp.zpool_name)
                         /\ UNCHANGED <<err, idx, ret, exit_code, anyfail>>
    /\ Tick
    /\ UNCHANGED <<execd_mode, no_histograms, sum_histogram_buckets, data,
                   pools, lines, out, realtime_ok, hin, hout>>

\* One stage: `if (err == 0) err = <record function>`; `guarded` is FALSE
\* for the first stage, which assigns err unconditionally.
RunStage(here, next, guarded, results) ==
    /\ pc = here
    /\ IF guarded /\ err # 0
       THEN pc' = next /\ UNCHANGED <<err, out, harderr>>
       ELSE \E r \in results :
                /\ err' = r.err
                /\ out' = out \o r.out
                /\ harderr' = (harderr \/ r.hard)
                /\ pc' = IF r.crashed THEN "crashed" ELSE next
    /\ Tick
    /\ UNCHANGED <<execd_mode, no_histograms, sum_histogram_buckets, timestamp,
                   data, pools, idx, lines, ret, pool_name, pass_start,
                   anyfail, exit_code, realtime_ok, hin, hout>>

Root == pools[idx].nvroot

\* line 734
StageSummary ==
    RunStage("summary", "scan", FALSE,
             {print_top_level_summary_stats(Root, pool_name, timestamp)})

\* the scan record stamped with the clock as it is when the stage runs
StageScanOwnClock ==
    RunStage("scan", "topvdev", TRUE,
             {print_scan_status(Root, pool_name, TimeNow, ReadClock)})

\* lines 737-738
StageScan ==
    RunStage("scan", "topvdev", TRUE,
             {print_scan_status(Root, pool_name, TimeNow, timestamp)})

\* the no_histograms flag left out
StageTopVdevAlwaysHistograms ==
    RunStage("topvdev", "latency", TRUE,
             {print_top_level_vdev_stats(Root, pool_name, timestamp)})

\* lines 740-743
StageTopVdev ==
    RunStage("topvdev", IF no_histograms = 0 THEN "latency" ELSE "return", TRUE,
             {print_top_level_vdev_stats(Root, pool_name, timestamp)})

\* lines 744-746
StageLatency ==
    RunStage("latency", "size", TRUE,
             print_recursive_stats("latency", Root, pool_name, <<>>, 1,
                                   sum_histogram_buckets, timestamp))

\* lines 747-749
StageSize ==
    RunStage("size", "queue", TRUE,
             print_recursive_stats("size", Root, pool_name, <<>>, 1,
                                   sum_histogram_buckets, timestamp))

\* the queue stage walking the whole tree: descend = 1
StageQueueDescend ==
    RunStage("queue", "return", TRUE,
             print_recursive_stats("queue", Root, pool_name, <<>>, 1,
                                   sum_histogram_buckets, timestamp))

\* lines 750-752
StageQueue ==
    RunStage("queue", "return", TRUE,
             print_recursive_stats("queue", Root, pool_name, <<>>, 0,
                                   sum_histogram_buckets, timestamp))

\* lines 754-756: print_stats returns err
PoolReturn ==
    /\ pc = "return"
    /\ StatsReturns(err)
    /\ anyfail' = (anyfail \/ harderr)
    /\ Tick
    /\ UNCHANGED <<execd_mode, no_histograms, sum_histogram_buckets, timestamp,
                   data, pools, lines, err, pool_name, out, pass_start,
                   harderr, realtime_ok, hin, hout>>

Next ==
    \/ LibzfsInit
    \/ OneShot
    \/ ReadLine
    \/ EndOfInput
    \/ IterEnd
    \/ PoolEnter
    \/ StageSummary
    \/ StageScan
    \/ StageTopVdev
    \/ StageLatency
    \/ StageSize
    \/ StageQueue
    \/ PoolReturn

Spec == Init /\ [][Next]_vars

----------------------------------------------------------------------------
(* Properties of the sampler                                               *)

InStats == pc \in {"summary", "scan", "topvdev", "latency", "size", "queue",
                   "return"}

\* what the current print_stats call has written so far
Seg == SubSeq(out, pass_start + 1, Len(out))

Written(m) == {i \in DOMAIN Seg : Seg[i].m = m}

StageRank(m) ==
    CASE m = "zpool_stats" -> 1
      [] m = "zpool_scan_stats" -> 2
      [] m = "zpool_vdev_stats" -> 3
      [] m = "zpool_latency" -> 4
      [] m = "zpool_io_size" -> 5
      [] m = "zpool_vdev_queue" -> 6

\* the field names of each record kind, in order
ExpectedKeys(m) ==
    CASE m = "zpool_stats" ->
             <<"alloc", "free", "size", "read_bytes", "read_errors",
               "read_ops", "write_bytes", "write_errors", "write_ops",
               "checksum_errors", "fragmentation">>
      [] m = "zpool_scan_stats" ->
             <<"end_ts", "errors", "examined", "pass_examined", "pause_ts",
               "paused_t", "pct_done", "processed", "rate", "remaining_t",
               "start_ts", "to_examine", "to_process">>
      [] m = "zpool_vdev_stats" -> [i \in DOMAIN queue_type |-> queue_type[i][3]]
      [] m = "zpool_latency" -> [i \in DOMAIN lat_type |-> lat_type[i][2]]
      [] m = "zpool_io_size" -> [i \in DOMAIN size_type |-> size_type[i][2]]
      [] m = "zpool_vdev_queue" -> [i \in DOMAIN queue_type |-> queue_type[i][2]]

WholeLine(r) ==
    /\ r.nl
    /\ [i \in DOMAIN r.fields |-> r.fields[i][1]] = ExpectedKeys(r.m)

RECURSIVE TreeHealthy(_)
TreeHealthy(nv) ==
    /\ Has(nv, "vdev_stats_ex")
    /\ DOMAIN nv.ex = LatNameSet \cup SizeNameSet \cup QueueNameSet
    /\ \A c \in DOMAIN nv.children : TreeHealthy(nv.children[c])

ScanSkipped(nv) ==
    \/ ~Has(nv, "scan_stats")
    \/ nv.ps.pss_state >= DSS_NUM_STATES
    \/ nv.ps.pss_func >= POOL_SCAN_FUNCS

\* C1: within one print_stats call, once a record function has returned
\* nonzero (at the root or at any other node of the tree), no later stage
\* writes anything and the call's result is nonzero.
C1_HardErrorAbortsPass ==
    [][(InStats /\ harderr) => (err # 0 /\ out' = out)]_vars

\* C2: every line started on the output is a whole line: all the fields of
\* its kind, the timestamp and the newline.
C2_NoPartialRecord ==
    \A i \in DOMAIN out : WholeLine(out[i])

\* C3: a pool without scan stats, or with a scan state or function out of
\* range, gets no scan record and no error from the scan stage: on an
\* otherwise healthy pool the later stages run and the call returns 0.
C3_ScanSkipIsNotAnError ==
    (pc = "return" /\ ScanSkipped(Root) /\ TreeHealthy(Root)) =>
        /\ err = 0
        /\ Written("zpool_scan_stats") = {}
        /\ Written("zpool_vdev_stats") # {}
        /\ no_histograms = 0 =>
             /\ Written("zpool_latency") # {}
             /\ Written("zpool_io_size") # {}
             /\ Written("zpool_vdev_queue") # {}

QueueRecords == SelectSeq(Seg, LAMBDA r : r.m = "zpool_vdev_queue")

\* C7 as stated: with histograms enabled and no stage failed, the queue
\* stage writes one zpool_vdev_queue record per child of the pool root.
C7_OneQueueRecordPerTopLevelVdev ==
    (pc = "return" /\ no_histograms = 0 /\ err = 0 /\ ~harderr) =>
        /\ Len(QueueRecords) = Len(Root.children)
        /\ \A c \in DOMAIN Root.children :
               QueueRecords[c].tags =
                   << <<"name", pool_name>> >>
                   \o get_vdev_desc(Root.children[c], get_vdev_name(Root, <<>>))

\* C7 as amended: with histograms enabled and err = 0 on return, the queue
\* stage has written exactly one zpool_vdev_queue record, a whole line for
\* the pool root itself; otherwise it has written none.
C7_OneQueueRecordForRoot ==
    pc = "return" =>
        IF no_histograms = 0 /\ err = 0
        THEN /\ Len(QueueRecords) = 1
             /\ WholeLine(QueueRecords[1])
             /\ QueueRecords[1].tags =
                    << <<"name", pool_name>> >> \o get_vdev_desc(Root, <<>>)
        ELSE QueueRecords = <<>>

C7_Witness ==
    /\ pc = "return" /\ no_histograms = 0 /\ err = 0
    /\ Len(Root.children) = 2
    /\ Len(Root.children[1].children) = 2
    /\ Len(QueueRecords) = 1

\* C8: the exit code of main is 0 exactly when no print_stats call met a
\* hard error.
C8_ExitCodeZeroIffNoHardError ==
    pc = "exit" => ((exit_code = 0) <=> ~anyfail)

\* C9: within one print_stats call the records come in stage order, and
\* with --no-histograms nothing of the three histogram stages is written.
C9_StageOrder ==
    /\ \A i, j \in DOMAIN Seg :
           i < j => StageRank(Seg[i].m) <= StageRank(Seg[j].m)
    /\ no_histograms # 0 =>
           \A i \in DOMAIN out :
               out[i].m \notin {"zpool_latency", "zpool_io_size",
                                "zpool_vdev_queue"}

C9_Witness ==
    /\ pc = "return"
    /\ \A m \in {"zpool_stats", "zpool_scan_stats", "zpool_vdev_stats",
                 "zpool_latency", "zpool_io_size", "zpool_vdev_queue"} :
           Written(m) # {}
    /\ Len(Root.children) = 2

\* C10: the timestamp is set once per print_stats call, before the call
\* writes anything, it does not change during the call, and every line the
\* call writes carries it.
C10_OneTimestampPerPool ==
    /\ [](\A i \in DOMAIN Seg : Seg[i].nl => Seg[i].ts = timestamp)
    /\ [][InStats => timestamp' = timestamp]_vars
    /\ [][timestamp' # timestamp =>
             (pc = "iter" /\ Len(out) = pass_start' /\ out' = out)]_vars

C10_Witness ==
    /\ pc = "return" /\ idx = 2 /\ pass_start > 0
    /\ Len(Seg) > 6
    /\ out[1].nl /\ out[1].ts # timestamp
    /\ \A i \in DOMAIN Seg : Seg[i].ts = timestamp

----------------------------------------------------------------------------
(* The bucket reducer on its own: one histogram emitter applied to one     *)
(* node whose arrays are drawn from a bounded family.                      *)

\* arrays of length len: bg in every bucket but at most two
BaseArrays(len) ==
    IF len = 0 THEN {<<>>}
    ELSE {[b \in 1..len |-> IF b = p THEN v ELSE IF b = q THEN w ELSE bg] :
             p \in 1..len, q \in 1..len,
             v \in {0, 1, UINT64_MAX}, w \in {0, 1, UINT64_MAX}, bg \in {0, 1}}

\* the array rotated left by k buckets
Rotate(array, k) ==
    [b \in 1..Len(array) |-> array[((b - 1 + k) % Len(array)) + 1]]

KindOf(kind) == IF kind = "latency" THEN LatencyKind ELSE SizeKind

\* a node whose series all have the length of `base`, each series its own
\* rotation of it
HistoNode(kind, base) ==
    LET table == KindOf(kind).table IN
    [keys |-> {"type", "vdev_stats_ex"}, type |-> <<"root">>, id |-> -1,
     path |-> <<>>, children |-> <<>>,
     ex |-> [n \in {table[i][1] : i \in DOMAIN table} |->
                Rotate(base, (CHOOSE i \in DOMAIN table : table[i][1] = n) - 1)]]

HistoInputs ==
    {[kind |-> kind, nvroot |-> HistoNode(kind, base)] :
        kind \in {"latency"},
        base \in UNION {BaseArrays(len) : len \in 0..(MIN_LAT_INDEX + MaxExtra)}}
    \cup
    {[kind |-> kind, nvroot |-> HistoNode(kind, base)] :
        kind \in {"size"},
        base \in UNION {BaseArrays(len) : len \in 0..(MIN_SIZE_INDEX + MaxExtra)}}

InitHisto ==
    /\ pc = "reduce"
    /\ hin \in HistoInputs
    /\ hout = <<>>
    /\ sum_histogram_buckets \in {0, 1}
    /\ execd_mode = 0
    /\ no_histograms = 0
    /\ data = <<>>
    /\ pools = <<>>
    /\ timestamp = NSEC_PER_SEC
    /\ idx = 0
    /\ lines = 0
    /\ ret = INITIAL_RET
    /\ err = 0
    /\ pool_name = escape_string(PoolB)
    /\ out = <<>>
    /\ clock = NSEC_PER_SEC
    /\ pass_start = 0
    /\ harderr = FALSE
    /\ anyfail = FALSE
    /\ exit_code = 0
    /\ realtime_ok = TRUE

Reduced(r) ==
    /\ hout' = r
    /\ pc' = IF r.crashed THEN "crashed" ELSE "reduced"
    /\ UNCHANGED <<execd_mode, no_histograms, sum_histogram_buckets, timestamp,
                   data, pools, idx, lines, ret, err, pool_name, out, clock,
                   pass_start, harderr, anyfail, exit_code, realtime_ok, hin>>

ReduceLatency ==
    /\ pc = "reduce"
    /\ hin.kind = "latency"
    /\ \E r \in print_vdev_latency_stats(hin.nvroot, pool_name, <<>>,
                                         sum_histogram_buckets, timestamp) :
           Reduced(r)

ReduceSize ==
    /\ pc = "reduce"
    /\ hin.kind = "size"
    /\ \E r \in print_vdev_size_stats(hin.nvroot, pool_name, <<>>,
                                      sum_histogram_buckets, timestamp) :
           Reduced(r)

NextHisto == ReduceLatency \/ ReduceSize

SpecHisto == InitHisto /\ [][NextHisto]_vars

----------------------------------------------------------------------------
(* Properties of the bucket reducer                                        *)

HTable == KindOf(hin.kind).table
HFloor == KindOf(hin.kind).floor
\* the raw array of series i
Raw(i) == hin.nvroot.ex[HTable[i][1]]
\* the length of the arrays (all series of an input have one length)
HLen == Len(Raw(1))
Rows == hout.out
\* the value row j reports for series i
RowVal(j, i) == Rows[j].fields[i][2]
\* the le tag of row j
RowLabel(j) == Rows[j].tags[1][2]

\* array[0] + ... + array[k], in the integers
RECURSIVE SumTo(_, _)
SumTo(array, k) == IF k < 0 THEN 0 ELSE array[k + 1] + SumTo(array, k - 1)

\* a "%0.6f" label that is 2^bucket ns to the nearest microsecond
NearestMicrosecond(label, bucket) ==
    /\ label[1] = "%0.6f"
    /\ 1000 * label[2] - 500 <= Pow2(bucket)
    /\ Pow2(bucket) <= 1000 * label[2] + 500

\* C4 as stated: for arrays of any length L the reducer returns having
\* written exactly L - F rows, for buckets F..L-1 in order, the last one
\* labelled +Inf and every other one labelled exactly 2^bucket (bytes, or
\* nanoseconds for latency).
C4_RowsForEveryLength ==
    pc # "reduce" =>
        /\ pc = "reduced"
        /\ hout.err = 0
        /\ Len(Rows) = HLen - HFloor
        /\ \A j \in DOMAIN Rows :
               IF j = Len(Rows) THEN RowLabel(j) = <<"+Inf">>
               ELSE IF hin.kind = "latency"
               THEN 1000 * RowLabel(j)[2] = Pow2(HFloor + j - 1)
               ELSE RowLabel(j)[2] = Pow2(HFloor + j - 1)

\* C4 as amended: for arrays of length L >= 1 the reducer returns 0 having
\* written exactly max(L - F, 0) whole rows, for buckets F..L-1 in order;
\* the last row is labelled +Inf, every other size row 2^bucket and every
\* other latency row 2^bucket ns in seconds rounded to six decimals.
C4_RowsForNonEmptyArrays ==
    (pc # "reduce" /\ HLen >= 1) =>
        /\ pc = "reduced"
        /\ hout.err = 0
        /\ Len(Rows) = (IF HLen > HFloor THEN HLen - HFloor ELSE 0)
        /\ \A j \in DOMAIN Rows :
               /\ WholeLine(Rows[j])
               /\ Rows[j].m = KindOf(hin.kind).m
               /\ IF j = Len(Rows) THEN RowLabel(j) = <<"+Inf">>
                  ELSE IF hin.kind = "latency"
                  THEN NearestMicrosecond(RowLabel(j), HFloor + j - 1)
                  ELSE RowLabel(j) = <<"%llu", Pow2(HFloor + j - 1)>>

C4_Witness ==
    /\ pc = "reduced" /\ hin.kind = "latency"
    /\ HLen = MIN_LAT_INDEX + 3
    /\ Len(Rows) = 3
    /\ RowLabel(1) = <<"%0.6f", 1>>
    /\ RowLabel(3) = <<"+Inf">>

\* C5 as stated: in both modes row F reports the sum of buckets 0..F and
\* row F+1 the sum of buckets 0..F+1 (unsigned 64-bit sums).
C5_FoldInAtFloorAndNext ==
    (pc = "reduced" /\ HLen >= HFloor + 2) =>
        \A i \in DOMAIN HTable :
            /\ RowVal(1, i) = SumTo(Raw(i), HFloor) % U64
            /\ RowVal(2, i) = SumTo(Raw(i), HFloor + 1) % U64

\* C5 as amended: in both modes row F reports the sum of buckets 0..F; row
\* F+1 reports the sum of buckets 0..F+1 with sum_histogram_buckets set and
\* the raw count of bucket F+1 alone without it.
C5_FoldInAtFloor ==
    (pc = "reduced" /\ HLen >= HFloor + 1) =>
        \A i \in DOMAIN HTable :
            /\ RowVal(1, i) = SumTo(Raw(i), HFloor) % U64
            /\ HLen >= HFloor + 2 =>
                   RowVal(2, i) = IF sum_histogram_buckets # 0
                                  THEN SumTo(Raw(i), HFloor + 1) % U64
                                  ELSE Raw(i)[HFloor + 2]

C5_Witness ==
    /\ pc = "reduced" /\ sum_histogram_buckets = 0
    /\ HLen >= HFloor + 2
    /\ \E i \in DOMAIN HTable :
           /\ SumTo(Raw(i), HFloor - 1) > 0
           /\ Raw(i)[HFloor + 1] > 0
           /\ Raw(i)[HFloor + 2] > 0
           /\ RowVal(1, i) > Raw(i)[HFloor + 1]
           /\ RowVal(2, i) = Raw(i)[HFloor + 2]

\* C6 as stated: with sum_histogram_buckets set, for all bucket counts, each
\* row's value is the count of all buckets up to its index and is at least
\* the previous row's value.
C6_CumulativeMonotonic ==
    (pc = "reduced" /\ sum_histogram_buckets # 0) =>
        \A i \in DOMAIN HTable : \A j \in DOMAIN Rows :
            /\ RowVal(j, i) = SumTo(Raw(i), HFloor + j - 1)
            /\ j > 1 => RowVal(j, i) >= RowVal(j - 1, i)

\* C6 as amended: with sum_histogram_buckets set, for every series whose
\* bucket counts total at most 2^64 - 1, each row's value is the count of
\* all buckets up to its index and is at least the previous row's value
\* (beyond that total the running sum wraps modulo 2^64).
C6_CumulativeMonotonicBelowWrap ==
    (pc = "reduced" /\ sum_histogram_buckets # 0) =>
        \A i \in DOMAIN HTable :
            /\ SumTo(Raw(i), HLen - 1) <= UINT64_MAX =>
                   \A j \in DOMAIN Rows :
                       /\ RowVal(j, i) = SumTo(Raw(i), HFloor + j - 1)
                       /\ j > 1 => RowVal(j, i) >= RowVal(j - 1, i)
            /\ \A j \in DOMAIN Rows :
                   RowVal(j, i) = SumTo(Raw(i), HFloor + j - 1) % U64

C6_Witness ==
    /\ pc = "reduced" /\ sum_histogram_buckets # 0
    /\ Len(Rows) = 3
    /\ \E i \in DOMAIN HTable :
           /\ SumTo(Raw(i), HLen - 1) <= UINT64_MAX
           /\ SumTo(Raw(i), HFloor - 1) > 0
           /\ RowVal(1, i) < RowVal(2, i)
           /\ RowVal(2, i) < RowVal(3, i)

----------------------------------------------------------------------------
(* The escaper on its own: escape_string applied to one string of single   *)
(* characters drawn from the letters and the four reserved characters.     *)

MaxStr == 3         \* input strings are at most MaxStr characters long
MaxNameLen == 2     \* modelled ZFS_MAX_DATASET_NAME_LEN (scaled down)

\* line 122: the buffer is malloc(ZFS_MAX_DATASET_NAME_LEN * 2) bytes
EscapeBufLen == MaxNameLen * 2

Letters == {"a", "b"}

RECURSIVE StringsUpTo(_)
StringsUpTo(n) ==
    IF n = 0 THEN {<<>>}
    ELSE StringsUpTo(n - 1)
         \cup {Append(s, ch) : s \in {t \in StringsUpTo(n - 1) : Len(t) = n - 1},
                               ch \in Letters \cup Reserved}

EscapeInputs == StringsUpTo(MaxStr)

\* The possible outcomes of escape_string(s). The result and its NUL are
\* written without a bound check: when they need more than the buffer the
\* writes run past the allocation, and the call either faults or returns
\* the whole result.
EscapeOutcomes(s) ==
    LET t == escape_string(s) IN
    IF Len(t) + 1 <= EscapeBufLen
    THEN {[t |-> t, fits |-> TRUE, crashed |-> FALSE]}
    ELSE {[t |-> t, fits |-> FALSE, crashed |-> FALSE],
          [t |-> <<>>, fits |-> FALSE, crashed |-> TRUE]}

\* the sampler's variables, at rest while a function is run on its own
SamplerAtRest ==
    /\ execd_mode = 0
    /\ no_histograms = 0
    /\ data = <<>>
    /\ pools = <<>>
    /\ timestamp = NSEC_PER_SEC
    /\ idx = 0
    /\ lines = 0
    /\ ret = INITIAL_RET
    /\ err = 0
    /\ pool_name = escape_string(PoolB)
    /\ out = <<>>
    /\ clock = NSEC_PER_SEC
    /\ pass_start = 0
    /\ harderr = FALSE
    /\ anyfail = FALSE
    /\ exit_code = 0
    /\ realtime_ok = TRUE

\* a function run on its own returns r
Returns(r, where) ==
    /\ hout' = r
    /\ pc' = where
    /\ UNCHANGED <<execd_mode, no_histograms, sum_histogram_buckets, timestamp,
                   data, pools, idx, lines, ret, err, pool_name, out, clock,
                   pass_start, harderr, anyfail, exit_code, realtime_ok, hin>>

InitEscape ==
    /\ pc = "escape"
    /\ hin \in EscapeInputs
    /\ hout = <<>>
    /\ sum_histogram_buckets = 0
    /\ SamplerAtRest

EscapeCall ==
    /\ pc = "escape"
    /\ \E r \in EscapeOutcomes(hin) :
           Returns(r, IF r.crashed THEN "crashed" ELSE "escaped")

NextEscape == EscapeCall

SpecEscape == InitEscape /\ [][NextEscape]_vars

----------------------------------------------------------------------------
(* Properties of the escaper                                               *)

\* the number of reserved characters among the first k of s
RECURSIVE ReservedIn(_, _)
ReservedIn(s, k) ==
    IF k = 0 THEN 0
    ELSE ReservedIn(s, k - 1) + (IF s[k] \in Reserved THEN 1 ELSE 0)

\* the decoder: remove the one backslash before each reserved character
RECURSIVE Unescape(_)
Unescape(t) ==
    IF t = <<>> THEN <<>>
    ELSE IF Head(t) = "\\" /\ Len(t) >= 2 /\ t[2] \in Reserved
    THEN <<t[2]>> \o Unescape(Tail(Tail(t)))
    ELSE <<Head(t)>> \o Unescape(Tail(t))

\* C11: for every string of letters and reserved characters whose escaped
\* form fits the buffer, escape_string returns a string in which every
\* input character appears in order, each reserved one preceded by exactly
\* one added backslash and nothing else added, and decoding the result
\* gives back the input.
C11_EscapeRoundTrip ==
    (pc = "escaped" /\ hout.fits) =>
        /\ Len(hout.t) = Len(hin) + ReservedIn(hin, Len(hin))
        /\ \A k \in DOMAIN hin :
               /\ hout.t[k + ReservedIn(hin, k)] = hin[k]
               /\ hin[k] \in Reserved => hout.t[k + ReservedIn(hin, k) - 1] = "\\"
        /\ Unescape(hout.t) = hin

C11_Witness ==
    /\ pc = "escaped" /\ hout.fits
    /\ hin = <<"a", "=">>
    /\ hout.t = <<"a", "\\", "=">>

----------------------------------------------------------------------------
(* The tree walker on its own: print_recursive_stats applied to one device *)
(* tree with one record function.                                          *)

RecordFuncs == {"latency", "size", "queue"}

WalkInputs ==
    {[func |-> func, descend |-> descend, nvroot |-> p.nvroot] :
        func \in RecordFuncs, descend \in {0, 1}, p \in PoolConfigs(PoolA)}

InitWalk ==
    /\ pc = "walk"
    /\ hin \in WalkInputs
    /\ hout = <<>>
    /\ sum_histogram_buckets \in {0, 1}
    /\ SamplerAtRest

WalkCall ==
    /\ pc = "walk"
    /\ \E r \in print_recursive_stats(hin.func, hin.nvroot, pool_name, <<>>,
                                      hin.descend, sum_histogram_buckets,
                                      timestamp) :
           Returns(r, IF r.crashed THEN "crashed" ELSE "walked")

NextWalk == WalkCall

SpecWalk == InitWalk /\ [][NextWalk]_vars

----------------------------------------------------------------------------
(* Properties of the tree walker                                           *)

\* the structural name of a node: its bare type at the root (no parent
\* name), parent/type-id below it
StructuralName(nv, parent) ==
    IF parent = <<>> THEN VdevType(nv)
    ELSE parent \o <<"/">> \o VdevType(nv) \o <<"-", ToString(VdevId(nv))>>

\* the record function finds everything it looks up at the node
FuncOk(func, nv) ==
    /\ Has(nv, "vdev_stats_ex")
    /\ (CASE func = "latency" -> LatNameSet
          [] func = "size" -> SizeNameSet
          [] func = "queue" -> QueueNameSet) \subseteq DOMAIN nv.ex

\* The nodes of the tree under nv in pre-order, children in their order,
\* each with the structural name of its parent. With all = FALSE the
\* subtree of a node the record function fails on is left out.
RECURSIVE PreOrder(_, _, _, _)
RECURSIVE PreOrderKids(_, _, _, _, _)
PreOrder(func, nv, parent, all) ==
    <<[nvroot |-> nv, parent_name |-> parent]>>
    \o (IF Has(nv, "children") /\ (all \/ FuncOk(func, nv))
        THEN PreOrderKids(func, nv.children, 1, StructuralName(nv, parent), all)
        ELSE <<>>)
PreOrderKids(func, kids, c, parent, all) ==
    IF c > Len(kids) THEN <<>>
    ELSE PreOrder(func, kids[c], parent, all)
         \o PreOrderKids(func, kids, c + 1, parent, all)

\* C12 as stated: with descend set, the record function is invoked on every
\* node of the tree exactly once, in pre-order with children in their
\* order, each time with the structural name of the node's parent.
C12_VisitsEveryNode ==
    (pc = "walked" /\ hin.descend # 0) =>
        hout.calls = PreOrder(hin.func, hin.nvroot, <<>>, TRUE)

\* C12 as amended: with descend set, the record function is invoked exactly
\* once, in pre-order with children in their order and with the structural
\* name of the parent, on the root and on every node whose ancestors the
\* record function all returned 0 on; the descendants of a node it returned
\* nonzero on are not visited, while the siblings of that node still are.
C12_VisitsWhileAncestorsSucceed ==
    (pc = "walked" /\ hin.descend # 0) =>
        hout.calls = PreOrder(hin.func, hin.nvroot, <<>>, FALSE)

C12_Witness ==
    /\ pc = "walked" /\ hin.descend # 0
    /\ Len(hout.calls) = 5
    /\ hout.calls[1].parent_name = <<>>
    /\ hout.calls[2].parent_name = <<"root">>
    /\ hout.calls[3].parent_name = <<"root", "/", "mirror", "-", "0">>
    /\ hout.calls[3].nvroot.path = <<"/dev/sda">>
    /\ hout.calls[5].nvroot.path = <<"/dev/sdc">>

----------------------------------------------------------------------------
(* The bucket reducer on a node whose arrays do not all have one length:   *)
(* every series has length len but series k, which has length other.       *)

MixedNode(kind, len, k, other) ==
    LET table == KindOf(kind).table IN
    [keys |-> {"type", "vdev_stats_ex"}, type |-> <<"root">>, id |-> -1,
     path |-> <<>>, children |-> <<>>,
     ex |-> [n \in {table[i][1] : i \in DOMAIN table} |->
                IF n = table[k][1] THEN SampleArray(other)
                ELSE SampleArray(len)]]

MixedLengths(kind) ==
    (KindOf(kind).floor - 1)..(KindOf(kind).floor + MaxExtra)

MixedInputs ==
    UNION {{[kind |-> kind, nvroot |-> MixedNode(kind, ll[1], k, ll[2])] :
               ll \in {x \in MixedLengths(kind) \X MixedLengths(kind) :
                          x[1] # x[2]},
               k \in DOMAIN KindOf(kind).table} :
           kind \in {"latency", "size"}}

InitHistoMixed ==
    /\ pc = "reduce"
    /\ hin \in MixedInputs
    /\ hout = <<>>
    /\ sum_histogram_buckets \in {0, 1}
    /\ SamplerAtRest

SpecHistoMixed == InitHistoMixed /\ [][NextHisto]_vars

\* the lengths of the arrays found for the node
HLengths == {Len(Raw(i)) : i \in DOMAIN HTable}

\* C13: when the arrays found for a node do not all have one length, the
\* emitter returns an error for the node without writing a row and without
\* reading past the end of an array (whose outcome is a fault or a row
\* built from whatever lies behind the array).
C13_UnequalLengthsAreAnError ==
    (pc # "reduce" /\ Cardinality(HLengths) > 1) =>
        /\ pc = "reduced"
        /\ ~hout.crashed
        /\ hout.err # 0
        /\ hout.out = <<>>

----------------------------------------------------------------------------
(* The scan record on its own: print_scan_status applied to one root node  *)
(* whose scan counters are drawn from a bounded family.                    *)

\* the time of the call: time(NULL) is 2
ScanClock == 2 * NSEC_PER_SEC

\* counter values: the small ones and those around the top bit
ScanCounters == {0, 1, 2, 3, INT64_MAX, INT64_MAX + 1, UINT64_MAX}

ScanNode(state, to_examine, examined, pass_exam, pass_begin) ==
    LET nv == VdevTree("single", "scanning", NoFault, TRUE) IN
    [nv EXCEPT !.ps = [@ EXCEPT !.pss_state = state,
                                !.pss_to_examine = to_examine,
                                !.pss_examined = examined,
                                !.pss_pass_exam = pass_exam,
                                !.pss_pass_start = pass_begin,
                                !.pss_end_time = 2]]

ScanInputs ==
    {ScanNode(state, to_examine, examined, pass_exam, pass_begin) :
        state \in {DSS_SCANNING, DSS_SCANNING + 1},
        to_examine \in ScanCounters, examined \in ScanCounters,
        pass_exam \in {0, 1, 2, 3, UINT64_MAX}, pass_begin \in {0, 1, 2}}

InitScan ==
    /\ pc = "scan_status"
    /\ hin \in ScanInputs
    /\ hout = <<>>
    /\ clock = ScanClock
    /\ sum_histogram_buckets = 0
    /\ execd_mode = 0
    /\ no_histograms = 0
    /\ data = <<>>
    /\ pools = <<>>
    /\ timestamp = clock
    /\ idx = 0
    /\ lines = 0
    /\ ret = INITIAL_RET
    /\ err = 0
    /\ pool_name = escape_string(PoolB)
    /\ out = <<>>
    /\ pass_start = 0
    /\ harderr = FALSE
    /\ anyfail = FALSE
    /\ exit_code = 0
    /\ realtime_ok = TRUE

ScanCall ==
    /\ pc = "scan_status"
    /\ Returns(print_scan_status(hin, pool_name, TimeNow, timestamp), "scanned")

NextScan == ScanCall

SpecScan == InitScan /\ [][NextScan]_vars

----------------------------------------------------------------------------
(* Properties of the scan record                                           *)

\* the value of the field called name in a line
Field(line, name) ==
    line.fields[CHOOSE i \in DOMAIN line.fields : line.fields[i][1] = name][2]

\* C14: while the state is scanning, the remaining_t written is at most
\* to_examine, for all counter values (examined = 0, to_examine = 0 and
\* examined > to_examine included): to_examine - examined / rate does not
\* wrap below zero.
C14_RemainingAtMostToExamine ==
    (pc = "scanned" /\ hin.ps.pss_state = DSS_SCANNING) =>
        /\ hout.err = 0
        /\ Field(hout.out[1], "remaining_t") <= hin.ps.pss_to_examine

----------------------------------------------------------------------------
(* The integer fields of the records written                               *)

\* every integer field of the line is at most INT64_MAX (pct_done is the
\* one field that is not an integer)
FieldsFitInt64(line) ==
    \A i \in DOMAIN line.fields :
        line.fields[i][1] # "pct_done" => line.fields[i][2] <= INT64_MAX

\* C15: in the default build every integer field written, in any record
\* kind, is at most INT64_MAX for all values of the input counters; the
\* bucket values of zpool_latency and zpool_io_size rows are among them.
C15_IntegerFieldsAtMostInt64Max ==
    /\ \A j \in DOMAIN out : FieldsFitInt64(out[j])
    /\ pc = "reduced" => \A j \in DOMAIN Rows : FieldsFitInt64(Rows[j])

====
